---- MODULE Spec2Model ----
(***************************************************************************)
(* QuackIR, PostgreSQL backend: the searcher (fts_search, embedding_search, *)
(* rrf_search, get_search_type, clean_tsquery) of search/_postgres.py and   *)
(* the indexer operations of index/_postgres.py that change what the        *)
(* searcher reads (init_table, load_jsonl_table, get_index_type).           *)
(*                                                                         *)
(* The database is modelled by what the SQL of the source asks of it: a     *)
(* table is its set of columns and its rows, a ranking is an ordering of    *)
(* the rows by the ORDER BY key (rows that tie come in any order), and a    *)
(* psycopg2 connection is its transaction status.                           *)
(***************************************************************************)
EXTENDS Integers, Sequences, FiniteSets, TLC

VARIABLES
    schema,             \* table name -> set of column names (information_schema.columns)
    rows,               \* table name -> set of ids of the rows stored
    use_pg_textsearch,  \* self.use_pg_textsearch of the searcher
    conn,               \* transaction status of self.conn: "ready" or "failed"
    last                \* the call being returned to the caller (NoCall when none)

vars == <<schema, rows, use_pg_textsearch, conn, last>>

----------------------------------------------------------------------------
(* Bounds of the model *)

MaxDocs == 3        \* ids of the corpus are 1..MaxDocs
MaxTopN == 2        \* top_n is drawn from 1..MaxTopN
MaxVec == 1         \* query vectors are drawn from 0..MaxVec

(* rrf_search(..., k=60, ...) *)
DefaultK == 60

Ids == 1..MaxDocs
Tables == {"t1", "t2"}
Columns == {"contents", "embedding"}

SPARSE == "SPARSE"
DENSE == "DENSE"

----------------------------------------------------------------------------
(* Characters of a query string: \w, \s and the rest *)

WordChars == {"a", "b", "c"}
SpaceChars == {" ", "\t"}

(* The query strings the calls are made with (sequences of characters) *)
QueryTexts ==
    { <<>>,
      <<"-", " ", "!">>,
      <<"a">>,
      <<"b", "!">>,
      <<"a", "-", "b">>,
      <<"\t", "a", " ", " ", "c", " ">> }

Min(a, b) == IF a <= b THEN a ELSE b

(* re.sub(r'[^\w\s]', ' ', query_string) *)
SubPunct(s) ==
    [i \in 1..Len(s) |-> IF s[i] \in WordChars \cup SpaceChars THEN s[i] ELSE " "]

(* re.sub(r'\s+', ' ', cleaned_query) *)
RECURSIVE CollapseSpace(_)
CollapseSpace(s) ==
    IF s = <<>> THEN <<>>
    ELSE IF Head(s) \in SpaceChars
         THEN IF Len(s) > 1 /\ s[2] \in SpaceChars
              THEN CollapseSpace(Tail(s))
              ELSE <<" ">> \o CollapseSpace(Tail(s))
         ELSE <<Head(s)>> \o CollapseSpace(Tail(s))

(* str.strip() *)
RECURSIVE Strip(_)
Strip(s) ==
    IF s = <<>> THEN <<>>
    ELSE IF Head(s) \in SpaceChars THEN Strip(Tail(s))
    ELSE IF s[Len(s)] \in SpaceChars THEN Strip(SubSeq(s, 1, Len(s) - 1))
    ELSE s

(* str.split(): the maximal runs of non-whitespace characters, in order.
   cur is the term being read. *)
RECURSIVE SplitFrom(_, _)
SplitFrom(s, cur) ==
    IF s = <<>> THEN (IF cur = <<>> THEN <<>> ELSE <<cur>>)
    ELSE IF Head(s) \in SpaceChars
         THEN (IF cur = <<>> THEN <<>> ELSE <<cur>>) \o SplitFrom(Tail(s), <<>>)
         ELSE SplitFrom(Tail(s), Append(cur, Head(s)))

Split(s) == SplitFrom(s, <<>>)

(* " | ".join(terms) *)
RECURSIVE JoinOr(_)
JoinOr(terms) ==
    IF terms = <<>> THEN <<>>
    ELSE IF Len(terms) = 1 THEN terms[1]
    ELSE terms[1] \o <<" ", "|", " ">> \o JoinOr(Tail(terms))

(* clean_tsquery with the first substitution deleting the characters
   instead of putting a space for each *)
clean_tsquery_deleting(query_string) ==
    JoinOr(Split(Strip(CollapseSpace(
        SelectSeq(query_string, LAMBDA ch : ch \in WordChars \cup SpaceChars)))))

(* PostgresSearcher.clean_tsquery *)
clean_tsquery(query_string) ==
    JoinOr(Split(Strip(CollapseSpace(SubPunct(query_string)))))

----------------------------------------------------------------------------
(* The corpus the tables are loaded from: document i has the lexemes
   DocTerms(i) in its contents and the embedding DocVec(i). Documents 2 and 3
   have the same embedding, so they tie on every vector distance. *)

DocTerms(i) ==
    CASE i % 4 = 1 -> {<<"a">>}
      [] i % 4 = 2 -> {<<"a">>, <<"b">>}
      [] i % 4 = 3 -> {<<"b">>}
      [] OTHER     -> {<<"c">>}

DocVec(i) == i \div 2

QueryVecs == 0..MaxVec

(* What to_tsquery('simple', text) and to_bm25query(text, idx) read in the
   text they are given: its maximal runs of word characters. *)
Lexemes(text) ==
    { SubSeq(text, i, j) : <<i, j>> \in
        { r \in (1..Len(text)) \X (1..Len(text)) :
            /\ r[1] <= r[2]
            /\ \A m \in r[1]..r[2] : text[m] \in WordChars
            /\ (r[1] = 1 \/ text[r[1] - 1] \notin WordChars)
            /\ (r[2] = Len(text) \/ text[r[2] + 1] \notin WordChars) } }

(* ts_rank(to_tsvector('simple', contents), query): the more lexemes of the
   query the document holds, the higher; 0 when it holds none. *)
ts_rank(id, text) == Cardinality(Lexemes(text) \cap DocTerms(id))

(* to_tsvector('simple', contents) @@ query, with the terms of the query
   joined by | : some lexeme of the query is in the document. *)
ts_match(id, text) == ts_rank(id, text) > 0

(* contents <@> to_bm25query(q, idx): the source orders by it ascending, so
   the better match has the lower value. *)
bm25_score(id, text) == 0 - ts_rank(id, text)

(* embedding <=> vector *)
distance(id, vector) ==
    IF DocVec(id) >= vector THEN DocVec(id) - vector ELSE vector - DocVec(id)

----------------------------------------------------------------------------
(* Scores of the fusion are rationals n/d with d > 0 *)

Frac(n, d) == [n |-> n, d |-> d]
FracAdd(x, y) == Frac(x.n * y.d + y.n * x.d, x.d * y.d)
FracTimes(w, x) == Frac(w * x.n, x.d)
FracLeq(x, y) == x.n * y.d <= y.n * x.d
FracEq(x, y) == x.n * y.d = y.n * x.d
FracLt(x, y) == x.n * y.d < y.n * x.d

----------------------------------------------------------------------------
(* ORDER BY and LIMIT *)

Range(p) == {p[i] : i \in 1..Len(p)}

Perms(S) ==
    { p \in [1..Cardinality(S) -> S] :
        \A i, j \in 1..Cardinality(S) : i # j => p[i] # p[j] }

(* ORDER BY: every sequence of the rows S in which each row may come before
   the next one (the pair is in before); the order of the rows that tie is
   the engine's. *)
OrderBy(S, before) ==
    { p \in Perms(S) : \A i \in 1..(Len(p) - 1) : <<p[i], p[i + 1]>> \in before }

(* LIMIT n on rows that come in the order p *)
Limit(p, n) == SubSeq(p, 1, Min(n, Len(p)))

(* ROW_NUMBER() OVER (ORDER BY key) of rows sorted as p *)
RowNumber(p) == [id \in Range(p) |-> CHOOSE i \in 1..Len(p) : p[i] = id]

(* RANK() OVER (ORDER BY key): one more than the number of rows that sort
   strictly before; rows that tie share a rank. *)
Rank(S, key) == [id \in S |-> 1 + Cardinality({j \in S : key[j] < key[id]})]

Restrict(f, S) == [x \in S |-> f[x]]

----------------------------------------------------------------------------
(* The two rankings of rrf_search. Each is the set of outcomes the engine can
   give, one per order of the rows that tie: src is the rank column over all
   the rows ranked, list the rows the LIMIT keeps. The window function sorts
   the rows and the LIMIT takes the first n of them in that order. *)

RankList(src, p, n) == [src |-> src, list |-> Restrict(src, Range(Limit(p, n)))]

(* WITH vector_search AS (SELECT id, ROW_NUMBER() OVER (ORDER BY embedding <=> v)
   AS rank FROM dense_table ORDER BY embedding <=> v LIMIT n) *)
vector_search(S, vector, n) ==
    { RankList(RowNumber(p), p, n) :
        p \in OrderBy(S, {xy \in S \X S : distance(xy[1], vector) <= distance(xy[2], vector)}) }

(* keyword_search AS (SELECT id, ROW_NUMBER() OVER (ORDER BY contents <@> q)
   AS rank FROM sparse_table ORDER BY contents <@> q LIMIT n) *)
keyword_search_bm25(S, text, n) ==
    { RankList(RowNumber(p), p, n) :
        p \in OrderBy(S, {xy \in S \X S : bm25_score(xy[1], text) <= bm25_score(xy[2], text)}) }

(* WITH semantic_search AS (SELECT id, RANK () OVER (ORDER BY embedding <=> v)
   AS rank FROM dense_table LIMIT n) *)
semantic_search(S, vector, n) ==
    { RankList(Rank(S, [x \in S |-> distance(x, vector)]), p, n) :
        p \in OrderBy(S, {xy \in S \X S : distance(xy[1], vector) <= distance(xy[2], vector)}) }

(* keyword_search AS (SELECT id, RANK () OVER (ORDER BY ts_rank(...) DESC) as rank
   FROM sparse_table, to_tsquery('simple', q) query WHERE ... @@ query LIMIT n) *)
keyword_search_ts(S, text, n) ==
    LET M == {id \in S : ts_match(id, text)}
    IN  { RankList(Rank(M, [x \in M |-> 0 - ts_rank(x, text)]), p, n) :
            p \in OrderBy(M, {xy \in M \X M : ts_rank(xy[1], text) >= ts_rank(xy[2], text)}) }

(* COALESCE(1.0 / (k + rank), 0.0) of the row of id in one ranking *)
rrf_term(ranks, id, k) ==
    IF id \in DOMAIN ranks THEN Frac(1, k + ranks[id]) ELSE Frac(0, 1)

(* the score with the two weights on the wrong terms *)
rrf_score_swapped(sem, key, id, k, w_sem, w_key) ==
    FracAdd(FracTimes(w_key, rrf_term(sem, id, k)), FracTimes(w_sem, rrf_term(key, id, k)))

(* the score with the weights left out *)
rrf_score_unweighted(sem, key, id, k, w_sem, w_key) ==
    FracAdd(rrf_term(sem, id, k), rrf_term(key, id, k))

(* w_sem * COALESCE(1.0 / (k + sem.rank), 0.0) + w_key * COALESCE(1.0 / (k + key.rank), 0.0) *)
rrf_score(sem, key, id, k, w_sem, w_key) ==
    FracAdd(FracTimes(w_sem, rrf_term(sem, id, k)), FracTimes(w_key, rrf_term(key, id, k)))

(* FROM semantic_search FULL OUTER JOIN keyword_search ON the id: one row for
   each id of either ranking (id is the primary key of both tables). *)
rrf_candidates(sem, key) == (DOMAIN sem) \cup (DOMAIN key)

(* ORDER BY score, without DESC *)
rrf_order_ascending(sem, key, k, w_sem, w_key) ==
    LET C == rrf_candidates(sem, key)
    IN  OrderBy(C, { xy \in C \X C :
                       FracLeq(rrf_score(sem, key, xy[1], k, w_sem, w_key),
                               rrf_score(sem, key, xy[2], k, w_sem, w_key)) })

(* ORDER BY score DESC *)
rrf_order(sem, key, k, w_sem, w_key) ==
    LET C == rrf_candidates(sem, key)
    IN  OrderBy(C, { xy \in C \X C :
                       FracLeq(rrf_score(sem, key, xy[2], k, w_sem, w_key),
                               rrf_score(sem, key, xy[1], k, w_sem, w_key)) })

(* LIMIT n of the final SELECT *)
rrf_limit(p, n) == Limit(p, n)

(* The final SELECT of rrf_search: the (id, score) rows it can return *)
rrf_merge(sem, key, n, k, w_sem, w_key) ==
    { [i \in 1..Len(q) |->
          [id |-> q[i], score |-> rrf_score(sem, key, q[i], k, w_sem, w_key)]] :
        q \in { rrf_limit(p, n) : p \in rrf_order(sem, key, k, w_sem, w_key) } }

----------------------------------------------------------------------------
(* A call and what it gave: its arguments, the statements it sent to the
   database (sent), the kinds its tables resolved to (kinds), the rankings of
   a fusion (sem, key, and sem_src, key_src before their LIMIT), and either
   the rows fetched (hits) or the exception raised (err, err_table). *)

Call(op, tables, query, vector, top_n, k, w_sem, w_key, pg) ==
    [op |-> op, tables |-> tables, query |-> query, vector |-> vector,
     top_n |-> top_n, k |-> k, w_sem |-> w_sem, w_key |-> w_key, pg |-> pg,
     kinds |-> <<>>, sent |-> <<>>,
     sem_src |-> <<>>, sem |-> <<>>, key_src |-> <<>>, key |-> <<>>,
     err |-> "", err_table |-> "", hits |-> <<>>]

NoCall == Call("none", <<>>, <<>>, 0, 0, 0, 0, 0, FALSE)

(* cur.execute(query, params): the statement, the tables named in it and the
   query text passed as its parameter *)
Statement(stmt, tbl, text) == [stmt |-> stmt, tbl |-> tbl, text |-> text]

Raise(call, err, table) == [call EXCEPT !.err = err, !.err_table = table]

(* PostgresSearcher.get_search_type: the kind, or "ValueError" when it raises *)
get_search_type(table_name) ==
    IF "contents" \in schema[table_name] THEN SPARSE
    ELSE IF "embedding" \in schema[table_name] THEN DENSE
    ELSE "ValueError"

(* PostgresIndexer.get_index_type *)
get_index_type(table_name) ==
    IF "contents" \in schema[table_name] THEN SPARSE
    ELSE IF "embedding" \in schema[table_name] THEN DENSE
    ELSE "ValueError"

(* The rows of an (id, score) result in the order q, score an integer *)
Hits(q, score) == [i \in 1..Len(q) |-> [id |-> q[i], score |-> Frac(score[q[i]], 1)]]

(* fts_search, use_pg_textsearch: SELECT id, contents <@> to_bm25query(q, idx) AS score
   FROM t ORDER BY score LIMIT n *)
fts_hits_bm25(S, text, n) ==
    { Hits(Limit(p, n), [x \in Range(p) |-> bm25_score(x, text)]) :
        p \in OrderBy(S, {xy \in S \X S : bm25_score(xy[1], text) <= bm25_score(xy[2], text)}) }

(* fts_search, otherwise: SELECT id, ts_rank(...) AS score FROM t WHERE ... @@ ...
   ORDER BY score DESC LIMIT n *)
fts_hits_ts(S, text, n) ==
    LET M == {id \in S : ts_match(id, text)}
    IN  { Hits(Limit(p, n), [x \in Range(p) |-> ts_rank(x, text)]) :
            p \in OrderBy(M, {xy \in M \X M : ts_rank(xy[1], text) >= ts_rank(xy[2], text)}) }

(* The query text fts_search and rrf_search pass to the database *)
sparse_query_text(pg, query_string) ==
    IF pg THEN query_string ELSE clean_tsquery(query_string)

(* PostgresSearcher.fts_search on a connection in status c *)
fts_search_outcomes(c, pg, query_string, top_n, table_name) ==
    LET text == sparse_query_text(pg, query_string)
        call == [Call("fts_search", <<table_name>>, query_string, 0, top_n, 0, 0, 0, pg)
                    EXCEPT !.sent = <<Statement("fts", <<table_name>>, text)>>]
    IN  IF c = "failed" THEN {Raise(call, "InFailedSqlTransaction", "")}
        ELSE IF "contents" \notin schema[table_name]
             THEN {Raise(call, "UndefinedColumn", table_name)}
        ELSE { [call EXCEPT !.hits = h] :
                 h \in IF pg THEN fts_hits_bm25(rows[table_name], text, top_n)
                             ELSE fts_hits_ts(rows[table_name], text, top_n) }

(* embedding_search with order by score, without desc *)
embedding_hits_ascending(S, vector, n) ==
    { Hits(Limit(p, n), [x \in Range(p) |-> 1 - distance(x, vector)]) :
        p \in OrderBy(S, {xy \in S \X S : 1 - distance(xy[1], vector) <= 1 - distance(xy[2], vector)}) }

(* select id, 1 - (embedding <=> v) as score from t order by score desc limit n *)
embedding_hits(S, vector, n) ==
    { Hits(Limit(p, n), [x \in Range(p) |-> 1 - distance(x, vector)]) :
        p \in OrderBy(S, {xy \in S \X S : 1 - distance(xy[1], vector) >= 1 - distance(xy[2], vector)}) }

(* PostgresSearcher.embedding_search on a connection in status c *)
embedding_search_outcomes(c, pg, query_embedding, top_n, table_name) ==
    LET call == [Call("embedding_search", <<table_name>>, <<>>, query_embedding, top_n, 0, 0, 0, pg)
                    EXCEPT !.sent = <<Statement("embedding", <<table_name>>, <<>>)>>]
    IN  IF c = "failed" THEN {Raise(call, "InFailedSqlTransaction", "")}
        ELSE IF "embedding" \notin schema[table_name]
             THEN {Raise(call, "UndefinedColumn", table_name)}
        ELSE { [call EXCEPT !.hits = h] :
                 h \in embedding_hits(rows[table_name], query_embedding, top_n) }

(* sparse_table = table_names[0] if get_search_type(table_names[0]) == SPARSE else table_names[1] *)
sparse_table_of(table_names) ==
    IF get_search_type(table_names[1]) = SPARSE THEN table_names[1] ELSE table_names[2]

(* dense_table = table_names[1] if get_search_type(table_names[1]) == DENSE else table_names[0] *)
dense_table_of(table_names) ==
    IF get_search_type(table_names[2]) = DENSE THEN table_names[2] ELSE table_names[1]

(* PostgresSearcher.rrf_search on a connection in status c *)
rrf_search_outcomes(c, pg, query_string, query_embedding, top_n, k, table_names, weight_keyword, weight_semantic) ==
    LET call == Call("rrf_search", table_names, query_string, query_embedding, top_n, k,
                     weight_semantic, weight_keyword, pg)
        cols1 == Statement("columns", <<table_names[1]>>, <<>>)
        cols2 == Statement("columns", <<table_names[2]>>, <<>>)
        k1 == get_search_type(table_names[1])
        k2 == get_search_type(table_names[2])
        sparse_table == sparse_table_of(table_names)
        dense_table == dense_table_of(table_names)
        text == sparse_query_text(pg, query_string)
        query_sql == Statement("rrf", <<sparse_table, dense_table>>, text)
        resolved == [call EXCEPT !.kinds = <<k1, k2>>, !.sent = <<cols1, cols2, query_sql>>]
    IN  IF c = "failed"
        THEN {Raise([call EXCEPT !.sent = <<cols1>>], "InFailedSqlTransaction", "")}
        ELSE IF k1 = "ValueError"
        THEN {Raise([call EXCEPT !.kinds = <<k1>>, !.sent = <<cols1>>],
                    "ValueError", table_names[1])}
        ELSE IF k2 = "ValueError"
        THEN {Raise([call EXCEPT !.kinds = <<k1, k2>>, !.sent = <<cols1, cols2>>],
                    "ValueError", table_names[2])}
        ELSE IF "embedding" \notin schema[dense_table]
        THEN {Raise(resolved, "UndefinedColumn", dense_table)}
        ELSE IF "contents" \notin schema[sparse_table]
        THEN {Raise(resolved, "UndefinedColumn", sparse_table)}
        ELSE LET V == IF pg THEN vector_search(rows[dense_table], query_embedding, top_n)
                           ELSE semantic_search(rows[dense_table], query_embedding, top_n)
                 KW == IF pg THEN keyword_search_bm25(rows[sparse_table], text, top_n)
                            ELSE keyword_search_ts(rows[sparse_table], text, top_n)
             IN  UNION { UNION { { [resolved EXCEPT !.sem_src = v.src, !.sem = v.list,
                                                    !.key_src = kw.src, !.key = kw.list,
                                                    !.hits = h] :
                                     h \in rrf_merge(v.list, kw.list, top_n, k,
                                                     weight_semantic, weight_keyword) } :
                                 kw \in KW } :
                         v \in V }

----------------------------------------------------------------------------
(* The calls. One client makes them one at a time: a call is made when the
   one before has returned (last = NoCall), and Return hands its outcome over. *)

TopNs == 1..MaxTopN

(* table_names of the fusion calls: two different tables, in either order *)
TablePairs == {tn \in Tables \X Tables : tn[1] # tn[2]}

(* (weight_keyword, weight_semantic) of the fusion calls *)
Weights == {<<1, 1>>, <<1, 0>>}

(* psycopg2: a statement that fails leaves the transaction of the connection
   aborted, and the source neither rolls back nor sets autocommit. *)
ConnAfter(c, call) == IF call.err = "UndefinedColumn" THEN "failed" ELSE c

(* PostgresSearcher.__init__ *)
Construct ==
    /\ last = NoCall
    /\ \E pg \in BOOLEAN :
         /\ use_pg_textsearch' = pg
         /\ conn' = "ready"
         /\ last' = Call("__init__", <<>>, <<>>, 0, 0, 0, 0, 0, pg)
    /\ UNCHANGED <<schema, rows>>

fts_search ==
    /\ last = NoCall
    /\ \E query_string \in QueryTexts, top_n \in TopNs, table_name \in Tables :
         \E r \in fts_search_outcomes(conn, use_pg_textsearch, query_string, top_n, table_name) :
            /\ last' = r
            /\ conn' = ConnAfter(conn, r)
    /\ UNCHANGED <<schema, rows, use_pg_textsearch>>

embedding_search ==
    /\ last = NoCall
    /\ \E query_embedding \in QueryVecs, top_n \in TopNs, table_name \in Tables :
         \E r \in embedding_search_outcomes(conn, use_pg_textsearch, query_embedding,
                                            top_n, table_name) :
            /\ last' = r
            /\ conn' = ConnAfter(conn, r)
    /\ UNCHANGED <<schema, rows, use_pg_textsearch>>

rrf_search ==
    /\ last = NoCall
    /\ \E query_string \in QueryTexts, query_embedding \in QueryVecs, top_n \in TopNs,
          table_names \in TablePairs, w \in Weights :
         \E r \in rrf_search_outcomes(conn, use_pg_textsearch, query_string, query_embedding,
                                      top_n, DefaultK, table_names, w[1], w[2]) :
            /\ last' = r
            /\ conn' = ConnAfter(conn, r)
    /\ UNCHANGED <<schema, rows, use_pg_textsearch>>

(* PostgresIndexer.get_index_type, on the indexer's own connection *)
index_type ==
    /\ last = NoCall
    /\ \E table_name \in Tables :
         LET call == [Call("get_index_type", <<table_name>>, <<>>, 0, 0, 0, 0, 0, FALSE)
                         EXCEPT !.kinds = <<get_index_type(table_name)>>,
                                !.sent = <<Statement("columns", <<table_name>>, <<>>)>>]
         IN  last' = IF get_index_type(table_name) = "ValueError"
                     THEN Raise(call, "ValueError", table_name)
                     ELSE call
    /\ UNCHANGED <<schema, rows, use_pg_textsearch, conn>>

(* PostgresIndexer.init_table: drop table if exists; create table with the
   column of the index type; commit *)
init_table ==
    /\ last = NoCall
    /\ \E table_name \in Tables, index_type_arg \in {SPARSE, DENSE} :
         /\ schema' = [schema EXCEPT ![table_name] =
                          IF index_type_arg = SPARSE THEN {"contents"} ELSE {"embedding"}]
         /\ rows' = [rows EXCEPT ![table_name] = {}]
         /\ last' = [Call("init_table", <<table_name>>, <<>>, 0, 0, 0, 0, 0, FALSE)
                        EXCEPT !.kinds = <<index_type_arg>>]
    /\ UNCHANGED <<use_pg_textsearch, conn>>

(* PostgresIndexer.load_jsonl_table of the corpus file into a table that
   init_table made for the same index type and that is still empty *)
load_jsonl_table ==
    /\ last = NoCall
    /\ \E table_name \in Tables, index_type_arg \in {SPARSE, DENSE} :
         /\ rows[table_name] = {}
         /\ schema[table_name] = (IF index_type_arg = SPARSE THEN {"contents"} ELSE {"embedding"})
         /\ rows' = [rows EXCEPT ![table_name] = Ids]
         /\ last' = [Call("load_jsonl_table", <<table_name>>, <<>>, 0, 0, 0, 0, 0, FALSE)
                        EXCEPT !.kinds = <<index_type_arg>>]
    /\ UNCHANGED <<schema, use_pg_textsearch, conn>>

(* return cur.fetchall(), or the exception reaching the caller *)
Return ==
    /\ last # NoCall
    /\ last' = NoCall
    /\ UNCHANGED <<schema, rows, use_pg_textsearch, conn>>

(* The database as the searcher finds it: t1 was provisioned for the text
   side and t2 for the vector side, each possibly with both columns or with
   neither, and both hold the corpus. *)
Init ==
    /\ schema \in { f \in [Tables -> SUBSET Columns] :
                      /\ f["t1"] # {"embedding"}
                      /\ f["t2"] # {"contents"} }
    /\ rows = [t \in Tables |-> Ids]
    /\ use_pg_textsearch \in BOOLEAN
    /\ conn = "ready"
    /\ last = NoCall

Next ==
    \/ Construct
    \/ fts_search
    \/ embedding_search
    \/ rrf_search
    \/ index_type
    \/ init_table
    \/ load_jsonl_table
    \/ Return

Spec == Init /\ [][Next]_vars

----------------------------------------------------------------------------
(* The final SELECT of rrf_search on its own, over every pair of rankings the
   two WITH queries can give for top_n: a ranking of at most top_n rows in
   which each rank is one more than the number of rows ranked strictly
   before (the ranks of ROW_NUMBER are all different, those of RANK repeat on
   ties). *)

IsRanking(f) ==
    \A id \in DOMAIN f : f[id] = 1 + Cardinality({j \in DOMAIN f : f[j] < f[id]})

RankLists(n) ==
    UNION { { f \in [S -> 1..MaxDocs] : IsRanking(f) } :
              S \in { T \in SUBSET Ids : Cardinality(T) <= n } }

(* the smoothing constants and the (weight_keyword, weight_semantic) tried *)
Ks == {1, DefaultK}
FusionWeights == {<<1, 1>>, <<1, 0>>, <<0, 1>>, <<2, 1>>}

rrf_final_select ==
    /\ last = NoCall
    /\ \E top_n \in TopNs, k \in Ks, w \in FusionWeights :
         \E sem \in RankLists(top_n), key \in RankLists(top_n) :
            \E h \in rrf_merge(sem, key, top_n, k, w[2], w[1]) :
               last' = [Call("rrf_merge", <<>>, <<>>, 0, top_n, k, w[2], w[1], FALSE)
                           EXCEPT !.sem = sem, !.key = key, !.hits = h]
    /\ UNCHANGED <<schema, rows, use_pg_textsearch, conn>>

InitFusion ==
    /\ schema = [t \in Tables |-> IF t = "t1" THEN {"contents"} ELSE {"embedding"}]
    /\ rows = [t \in Tables |-> Ids]
    /\ use_pg_textsearch = FALSE
    /\ conn = "ready"
    /\ last = NoCall

NextFusion == rrf_final_select

SpecFusion == InitFusion /\ [][NextFusion]_vars

(* a call whose result is a fused ranking *)
Fused == last.op \in {"rrf_search", "rrf_merge"} /\ last.err = ""

HitIds == {last.hits[i].id : i \in 1..Len(last.hits)}

----------------------------------------------------------------------------
(* C1: every id a fusion returns has the score
   weight_sparse * 1/(k + rank_sparse(id)), if the id is in the sparse rank
   list, plus weight_dense * 1/(k + rank_dense(id)), if it is in the dense
   rank list; an id in both lists gets the sum of the two terms, an id in one
   list that term only; no id is returned twice or from neither list. *)
C1_FusedScore ==
    Fused =>
      /\ \A i, j \in 1..Len(last.hits) : i # j => last.hits[i].id # last.hits[j].id
      /\ \A i \in 1..Len(last.hits) :
           LET id == last.hits[i].id
               sc == last.hits[i].score
               rs == last.k + last.key[id]
               rd == last.k + last.sem[id]
           IN  CASE id \in DOMAIN last.key /\ id \in DOMAIN last.sem ->
                      sc.n * rs * rd = sc.d * (last.w_key * rd + last.w_sem * rs)
                 [] id \in DOMAIN last.key /\ id \notin DOMAIN last.sem ->
                      sc.n * rs = sc.d * last.w_key
                 [] id \notin DOMAIN last.key /\ id \in DOMAIN last.sem ->
                      sc.n * rd = sc.d * last.w_sem
                 [] OTHER -> FALSE

(* a fusion that returned an id of both lists, with both weights positive and
   different, and an id of the sparse list alone *)
C1_Witness ==
    /\ last.op = "rrf_merge"
    /\ last.w_key = 2 /\ last.w_sem = 1 /\ last.k = DefaultK
    /\ \E i, j \in 1..Len(last.hits) :
         /\ last.hits[i].id \in (DOMAIN last.key) \cap (DOMAIN last.sem)
         /\ last.hits[j].id \in (DOMAIN last.key) \ (DOMAIN last.sem)

(* C2: the fused result is in non-increasing order of score, has at most
   top_n rows, no candidate left out scores strictly more than a row
   returned, and two empty rank lists give the empty result without error. *)
C2_SortedTopN ==
    Fused =>
      /\ Len(last.hits) <= last.top_n
      /\ \A i, j \in 1..Len(last.hits) :
           i < j => FracLeq(last.hits[j].score, last.hits[i].score)
      /\ HitIds \subseteq rrf_candidates(last.sem, last.key)
      /\ \A id \in rrf_candidates(last.sem, last.key) \ HitIds :
           \A i \in 1..Len(last.hits) :
              ~ FracLt(last.hits[i].score,
                       rrf_score(last.sem, last.key, id, last.k, last.w_sem, last.w_key))
      /\ (last.sem = <<>> /\ last.key = <<>>) => last.hits = <<>>

(* a fusion that had more candidates than top_n and left out one scoring
   strictly less than the last row returned *)
C2_Witness ==
    /\ last.op = "rrf_merge"
    /\ Len(last.hits) = last.top_n
    /\ last.top_n > 1
    /\ FracLt(last.hits[2].score, last.hits[1].score)
    /\ \E id \in rrf_candidates(last.sem, last.key) \ HitIds :
         FracLt(rrf_score(last.sem, last.key, id, last.k, last.w_sem, last.w_key),
                last.hits[Len(last.hits)].score)

(* C9: with weight_dense = 0 and weight_sparse = 1 the fused result orders
   the ids of the sparse list as the sparse list ranks them, the ids of the
   dense list alone score 0 and come after every id of the sparse list, and
   they are candidates all the same: the result has min(top_n, number of ids
   of the two lists) rows. *)
C9_WeightIsolation ==
    (Fused /\ last.w_sem = 0 /\ last.w_key = 1) =>
      /\ \A i, j \in 1..Len(last.hits) :
           (i < j /\ last.hits[i].id \in DOMAIN last.key /\ last.hits[j].id \in DOMAIN last.key)
             => last.key[last.hits[i].id] <= last.key[last.hits[j].id]
      /\ \A i \in 1..Len(last.hits) :
           last.hits[i].id \notin DOMAIN last.key =>
             /\ last.hits[i].score.n = 0
             /\ \A j \in 1..Len(last.hits) : j > i => last.hits[j].id \notin DOMAIN last.key
      /\ Len(last.hits) =
           Min(last.top_n, Cardinality((DOMAIN last.sem) \cup (DOMAIN last.key)))

(* weight_dense = 0: two ids returned in the order of the sparse list while
   the dense list ranks them the other way, and an id of the dense list
   alone returned with score 0 *)
C9_Witness ==
    /\ last.op = "rrf_merge" /\ last.w_sem = 0 /\ last.w_key = 1
    /\ \E i, j \in 1..Len(last.hits) :
         /\ i < j
         /\ last.hits[i].id \in (DOMAIN last.key) \cap (DOMAIN last.sem)
         /\ last.hits[j].id \in (DOMAIN last.key) \cap (DOMAIN last.sem)
         /\ last.key[last.hits[i].id] < last.key[last.hits[j].id]
         /\ last.sem[last.hits[j].id] < last.sem[last.hits[i].id]

----------------------------------------------------------------------------
(* C3: the ids of the fused result are ids of the two rank lists, and every
   id whose rank in either source is at most top_n is in the candidate pool
   of the final SELECT. *)
C3_CandidacyUnion ==
    (last.op = "rrf_search" /\ last.err = "") =>
      /\ HitIds \subseteq (DOMAIN last.sem) \cup (DOMAIN last.key)
      /\ \A id \in DOMAIN last.sem_src :
           last.sem_src[id] <= last.top_n => id \in rrf_candidates(last.sem, last.key)
      /\ \A id \in DOMAIN last.key_src :
           last.key_src[id] <= last.top_n => id \in rrf_candidates(last.sem, last.key)

(* C4: a fusion whose two tables resolve to the same kind fails with
   AmbiguousFusionTables and sends no ranking query; the two rankings never
   run against the same table. *)
C4_AmbiguousFusionTables ==
    (/\ last.op = "rrf_search"
     /\ Len(last.kinds) = 2
     /\ last.kinds[1] = last.kinds[2]
     /\ last.kinds[1] \in {SPARSE, DENSE}) =>
      /\ last.err = "AmbiguousFusionTables"
      /\ \A i \in 1..Len(last.sent) : last.sent[i].stmt # "rrf"

(* The kind the columns of a table stand for *)
KindOfColumns(table_name) ==
    CASE "contents" \in schema[table_name] -> SPARSE
      [] "contents" \notin schema[table_name] /\ "embedding" \in schema[table_name] -> DENSE
      [] OTHER -> "ValueError"

(* C5: the resolver gives SPARSE for a table with a contents column (with or
   without an embedding column), DENSE for one with an embedding column and
   no contents column, and otherwise fails with an error naming the table;
   every fusion call resolves its tables by their schema at the time of the
   call, and fails when either table does not resolve. *)
C5_IndexTypeResolver ==
    /\ last.op = "get_index_type" =>
         /\ last.kinds = <<KindOfColumns(last.tables[1])>>
         /\ KindOfColumns(last.tables[1]) = "ValueError" =>
              (last.err = "ValueError" /\ last.err_table = last.tables[1])
    /\ last.op = "rrf_search" =>
         /\ Len(last.kinds) >= 1
         /\ last.kinds[1] = KindOfColumns(last.tables[1])
         /\ KindOfColumns(last.tables[1]) = "ValueError" =>
              (last.err = "ValueError" /\ last.err_table = last.tables[1])
         /\ KindOfColumns(last.tables[1]) # "ValueError" =>
              /\ Len(last.kinds) = 2
              /\ last.kinds[2] = KindOfColumns(last.tables[2])
              /\ KindOfColumns(last.tables[2]) = "ValueError" =>
                   (last.err = "ValueError" /\ last.err_table = last.tables[2])

(* The resolver on a connection whose transaction is not aborted: C5 as
   stated, for the calls whose column query the database answers. *)
ResolverOnReadyConnection ==
    last.err # "InFailedSqlTransaction" => C5_IndexTypeResolver

----------------------------------------------------------------------------
(* The terms of a query string, read off the string itself: its maximal runs
   of word characters, in order. *)

RunStarts(s) ==
    {i \in 1..Len(s) : s[i] \in WordChars /\ (i = 1 \/ s[i - 1] \notin WordChars)}

RunFrom(s, i) ==
    SubSeq(s, i, CHOOSE j \in i..Len(s) :
                    /\ \A m \in i..j : s[m] \in WordChars
                    /\ (j = Len(s) \/ s[j + 1] \notin WordChars))

WordRunSeq(s) ==
    [n \in 1..Cardinality(RunStarts(s)) |->
        RunFrom(s, CHOOSE i \in RunStarts(s) :
                      Cardinality({j \in RunStarts(s) : j < i}) = n - 1)]

(* The normal form of the claim: the characters that are neither word
   characters nor whitespace removed, whitespace runs collapsed, the terms
   joined with OR *)
RemovedNormalForm(s) ==
    JoinOr(Split(SelectSeq(s, LAMBDA ch : ch \in WordChars \cup SpaceChars)))

SparseStatements == {i \in 1..Len(last.sent) : last.sent[i].stmt \in {"fts", "rrf"}}

(* C6, as stated: in every configuration the sparse query sent by fts_search
   and by rrf_search is the query string with its non-word, non-whitespace
   characters removed, whitespace collapsed and terms joined with OR. *)
C6_NormalizedEverywhere ==
    \A i \in SparseStatements : last.sent[i].text = RemovedNormalForm(last.query)

(* C6, amended: without pg_textsearch the sparse query sent by fts_search and
   by rrf_search is the maximal runs of word characters of the query string
   joined with OR (every other character separates terms); with
   pg_textsearch both send the query string unchanged. *)
C6_SameQueryBothPaths ==
    \A i \in SparseStatements :
       last.sent[i].text =
          IF last.pg THEN last.query ELSE JoinOr(WordRunSeq(last.query))

(* a fusion without pg_textsearch for "a-b", which sent "a | b" *)
C6_Witness ==
    /\ last.op = "rrf_search" /\ ~ last.pg /\ last.err = ""
    /\ last.query = <<"a", "-", "b">>
    /\ \E i \in SparseStatements : last.sent[i].text = <<"a", " ", "|", " ", "b">>

----------------------------------------------------------------------------
(* C7: when the normalization of the query string yields no term, the sparse
   search fails with EmptyQuery or returns an empty result, the same on both
   paths: neither fts_search nor rrf_search returns rows for such a query. *)
C7_EmptyQueryConsistent ==
    (/\ last.op \in {"fts_search", "rrf_search"}
     /\ ~ last.pg
     /\ clean_tsquery(last.query) = <<>>
     /\ last.err = "") =>
      last.hits = <<>>

(* the outcomes of the call of last on a searcher just constructed with the
   same use_pg_textsearch, over the database as it is *)
FreshOutcomes ==
    CASE last.op = "fts_search" ->
           fts_search_outcomes("ready", last.pg, last.query, last.top_n, last.tables[1])
      [] last.op = "embedding_search" ->
           embedding_search_outcomes("ready", last.pg, last.vector, last.top_n, last.tables[1])
      [] last.op = "rrf_search" ->
           rrf_search_outcomes("ready", last.pg, last.query, last.vector, last.top_n, last.k, last.tables, last.w_key, last.w_sem)
      [] OTHER -> {last}

(* C8: a call of the searcher, after any calls before it (failed ones too),
   has an outcome of the same call on a freshly constructed searcher: it
   fails only if that one fails, and returns rows that one can return. *)
C8_SameAsFreshSearcher ==
    \E r \in FreshOutcomes : r.hits = last.hits /\ (r.err = "" <=> last.err = "")

(* The calls of the searcher leave the tables as they are *)
SearcherReadOnly ==
    [][last'.op \in {"fts_search", "embedding_search", "rrf_search"}
         => UNCHANGED <<schema, rows>>]_vars

----------------------------------------------------------------------------
SingleSource == last.op \in {"fts_search", "embedding_search"} /\ last.err = ""

(* C10, as stated: the hits of fts_search and of embedding_search are at most
   top_n and in non-increasing order of score, in every configuration. *)
C10_NonIncreasingScores ==
    SingleSource =>
      /\ Len(last.hits) <= last.top_n
      /\ \A i, j \in 1..Len(last.hits) :
           i < j => FracLeq(last.hits[j].score, last.hits[i].score)

(* the value the source orders a row by, the lower the better *)
SortKey(id) ==
    CASE last.op = "embedding_search" -> distance(id, last.vector)
      [] last.op = "fts_search" /\ last.pg -> bm25_score(id, last.sent[1].text)
      [] OTHER -> 0 - ts_rank(id, last.sent[1].text)

(* C10, amended: the hits of fts_search and of embedding_search are at most
   top_n, best match first (no row left out is a better match than a row
   returned), in non-increasing order of score for embedding_search and for
   fts_search without pg_textsearch, and in non-decreasing order of score for
   fts_search with pg_textsearch, whose score is the value of <@>, lower for
   the better match. *)
C10_BestFirst ==
    SingleSource =>
      /\ Len(last.hits) <= last.top_n
      /\ \A i, j \in 1..Len(last.hits) :
           i < j => /\ SortKey(last.hits[i].id) <= SortKey(last.hits[j].id)
                    /\ IF last.op = "fts_search" /\ last.pg
                       THEN FracLeq(last.hits[i].score, last.hits[j].score)
                       ELSE FracLeq(last.hits[j].score, last.hits[i].score)
      /\ \A id \in rows[last.tables[1]] \ HitIds :
           \A i \in 1..Len(last.hits) : SortKey(last.hits[i].id) <= SortKey(id)

(* fts_search with pg_textsearch returned two rows, the better one first and
   with the strictly lower score, and left a row out *)
C10_Witness ==
    /\ last.op = "fts_search" /\ last.pg /\ last.err = ""
    /\ Len(last.hits) = 2
    /\ FracLt(last.hits[1].score, last.hits[2].score)
    /\ rows[last.tables[1]] \ HitIds # {}

----------------------------------------------------------------------------
(* One rank list of a fusion call: list is what the merge is fed, src the
   rank column over all the rows ranked, key the value the source orders a
   row by (the lower the better). Its rank positions are the distinct
   integers 1..length, it holds top_n rows or all the rows ranked, rows of a
   lower position are no worse matches, and no row left out is a better
   match or has a smaller rank position than a row kept. *)
IsTopNRankList(list, src, key, top_n) ==
    /\ {list[id] : id \in DOMAIN list} = 1..Cardinality(DOMAIN list)
    /\ Cardinality(DOMAIN list) = Min(top_n, Cardinality(DOMAIN src))
    /\ \A x, y \in DOMAIN list : list[x] < list[y] => key[x] <= key[y]
    /\ \A x \in DOMAIN list : \A y \in (DOMAIN src) \ (DOMAIN list) :
         key[x] <= key[y] /\ src[x] <= src[y]

(* the value each side of the fusion query orders the rows by *)
SemKey == [id \in DOMAIN last.sem_src |-> distance(id, last.vector)]
KeyKey == [id \in DOMAIN last.key_src |-> 0 - ts_rank(id, last.sent[3].text)]

(* C11: in every fusion call, in both SQL variants, each of the two rank
   lists fed to the merge holds the top_n best rows of its source in that
   source's order, with rank positions the distinct integers 1..length (rows
   that tie do not share a position), the rows kept by the per-source limit
   being those of the smallest rank positions. *)
C11_RankListsTopN ==
    (last.op = "rrf_search" /\ last.err = "") =>
      /\ IsTopNRankList(last.sem, last.sem_src, SemKey, last.top_n)
      /\ IsTopNRankList(last.key, last.key_src, KeyKey, last.top_n)

(* With pg_textsearch (ROW_NUMBER, ORDER BY and LIMIT in each ranking) the
   two rank lists are as C11 says. *)
RankListsWithRowNumber ==
    (last.op = "rrf_search" /\ last.err = "" /\ last.pg) =>
      /\ IsTopNRankList(last.sem, last.sem_src, SemKey, last.top_n)
      /\ IsTopNRankList(last.key, last.key_src, KeyKey, last.top_n)

====
